---------------------------- MODULE Spec2Model ----------------------------
(***************************************************************************)
(* express-throttle: token-bucket request throttling middleware.           *)
(*                                                                         *)
(* The repository holds three generations of the middleware:               *)
(*   "A"  lib/throttle.js 1-211: update_bucket, ":fixed" rates kept with a *)
(*        window_start field;                                              *)
(*   "B"  lib/throttle.js 212-267 with the options module of Benchmark.md  *)
(*        141-334: rolling rates, or a fixed period kept with etime;       *)
(*   "C"  unnamed/part_002 1-84: as B, plus auto_drain and req.drain.      *)
(* The generation is part of the configuration chosen in Init.             *)
(*                                                                         *)
(* Token balances are rationals.  A balance is held as a whole number of   *)
(* units, Unit(o) = 2 * period units to the token, so that the refill      *)
(* rate * dt = amount * dt / period and costs that are multiples of half a *)
(* token are exact.  Times are whole milliseconds (Date.now()).            *)
(***************************************************************************)
EXTENDS Integers, Sequences, FiniteSets

VARIABLES
    opts,     \* the parsed options of the middleware instance
    clock,    \* what Date.now() returns
    store,    \* MemoryStore.cache: key -> bucket, or NoBucket
    drains,   \* the req.drain closures of the requests admitted in deferred mode
    last,     \* observation of the latest request: what the handler read and decided
    hist,     \* per key history: latest subtraction, admitted-cost debt, cost of the window
    run,      \* observation of the current run of cost-1 requests at one instant
    probe,    \* recording of the first requests of a run of the test scenarios
    conf,     \* the options object given to throttle(), and what parse_options made of it
    flight    \* the requests waiting for a store that completes asynchronously

vars == <<opts, clock, store, drains, last, hist, run, probe, conf, flight>>

-----------------------------------------------------------------------------
(* Bounds of the model *)

MaxTime == 4
MaxCost == 3
MaxDrains == 1
\* the subtractions and store.set calls of one closure are counted up to here
MaxCalls == 2

Keys == {"k1"}
Versions == {"A", "B", "C"}
\* rate strings "1/2ms", "2/3ms"
Rates == {<<1, 2>>, <<2, 3>>}
\* burst option; 0 stands for an option that is not given
Bursts == {0, 2}
\* what a cost function may return, in half tokens: 0, 0.5, 1, 1.5
Costs == 0..MaxCost
\* cost option: not given, a number (cost_num half tokens), or a function
CostKinds == {"absent", "number", "function"}
\* the numbers given as cost: 0 and 1.5 tokens, in half tokens
CostNums == {0, 3}
\* auto_drain option of generation C: not given, true or false
DrainOpts == {"absent", "true", "false"}
\* store option: not given (MemoryStore), or an object whose get and set complete
\* synchronously, or one whose get and set complete asynchronously
Stores == {"memory", "sync", "async"}
\* on_allowed option: not given (the default calls next()), or a function that
\* answers the request itself, as create_app of test/throttle.unit.js gives
Hooks == {"default", "custom"}

Min(a, b) == IF a < b THEN a ELSE b
Max(a, b) == IF a > b THEN a ELSE b
Abs(a) == IF a < 0 THEN -a ELSE a

-----------------------------------------------------------------------------
(* Options *)

\* the number that is not a number; no string of digits is parsed to it
NaN == -1

Plus(a, b) == IF a = NaN \/ b = NaN THEN NaN ELSE a + b
Times(a, b) == IF a = NaN \/ b = NaN THEN NaN ELSE a * b
Greater(a, b) == a # NaN /\ b # NaN /\ a > b

\* the period the token arithmetic is scaled by: the balance of a fixed window
\* whose period is not a number is counted in half tokens
Scale(o) == IF o.period = NaN THEN 1 ELSE o.period

\* units of balance to one token
Unit(o) == 2 * Scale(o)

\* a cost given in half tokens, in units
CostUnits(o, c) == c * Scale(o)

\* the cost options: <<kind, number>>
CostOptions(kinds, nums) ==
    { <<ck, 0>> : ck \in kinds \ {"number"} }
        \cup { <<"number", n>> : n \in (IF "number" \in kinds THEN nums ELSE {}) }

\* the options object a caller may pass, per generation:
\* A: rate "<amount>/<period>ms[:fixed]" and an optional burst;
\* B, C: rate "<amount>/<period>ms" and an optional burst (rolling), or
\*       period "<period>ms" and a burst (fixed); C also takes auto_drain.
\* auto_drain is what the handler reads after parsing.
OptionsFor(versions, rates, bursts, costs, drainopts, stores, hooks) ==
    { [version |-> v, fixed |-> f, amount |-> r[1], period |-> r[2],
       burst |-> b, auto_drain_opt |-> a, auto_drain |-> TRUE,
       cost_kind |-> ck[1], cost_num |-> ck[2], store |-> st, on_allowed |-> hk] :
        v \in versions, f \in BOOLEAN, r \in rates, b \in bursts, a \in drainopts,
        ck \in costs, st \in stores, hk \in hooks }

\* the configurations of the bucket arithmetic: the MemoryStore, hooks that answer
\* the request, auto_drain given; the deferred mode with the constant costs
OptionsOf(rates, bursts, kinds) ==
    OptionsFor(Versions, rates, bursts, CostOptions(kinds, CostNums), {"true"},
               {"memory"}, {"custom"})
        \cup OptionsFor({"C"}, rates, bursts, CostOptions(kinds \ {"function"}, CostNums),
                        {"false"}, {"memory"}, {"custom"})

Options == OptionsOf(Rates, Bursts, CostKinds)

\* the default of auto_drain: when the option is not given, the cost is subtracted
\* at admission
default_auto_drain(o) == o.auto_drain_opt # "false"

\* parse_options: whether the options are accepted (the generations without
\* auto_drain are given as auto_drain true)
accepted(o) ==
    /\ (o.version # "C") => o.auto_drain_opt = "true"
    /\ (o.version # "A" /\ o.fixed) => o.burst # 0

\* parse_options: burst defaults to rate.amount; A: size = opts.burst || opts.rate.amount
\* a fixed period of B, C comes without a rate: its amount is kept as 0
parse(o) ==
    [o EXCEPT !.burst = IF o.burst # 0 THEN o.burst ELSE o.amount,
              !.amount = IF o.version # "A" /\ o.fixed THEN 0 ELSE o.amount,
              !.auto_drain = default_auto_drain(o)]

\* cost_func / opts.cost: what a request may cost, in half tokens.  A keeps a
\* number as it is; the options module of B, C takes a number only if it is truthy
cost_func(o) ==
    IF o.cost_kind = "function" THEN Costs
    ELSE IF o.cost_kind = "number" /\ (o.version = "A" \/ o.cost_num # 0) THEN {o.cost_num}
    ELSE {2}

\* opts.burst / bucket_settings.size, in units
Size(o) == o.burst * Unit(o)

-----------------------------------------------------------------------------
(* Buckets *)

\* the fields a generation does not keep are 0
NoBucket == [tokens |-> -1, mtime |-> 0, rtime |-> 0, window_start |-> 0, etime |-> 0]

\* the slip of creating the bucket without its tokens
create_bucket_empty(o, ctime) ==
    [tokens |-> 0, mtime |-> ctime, rtime |-> 0, window_start |-> 0,
     etime |-> IF o.fixed /\ o.version # "A" THEN Plus(ctime, o.period) ELSE 0]

\* the slip of creating the bucket with no modification time
create_bucket_stale(o, ctime) ==
    [tokens |-> Size(o), mtime |-> 0, rtime |-> 0, window_start |-> 0,
     etime |-> IF o.fixed /\ o.version # "A" THEN Plus(ctime, o.period) ELSE 0]

create_bucket(o, ctime) ==
    IF o.version = "A"
    THEN [tokens |-> Size(o), mtime |-> ctime, rtime |-> ctime + o.period,
          window_start |-> 0, etime |-> 0]
    ELSE [tokens |-> Size(o), mtime |-> ctime, rtime |-> 0, window_start |-> 0,
          etime |-> IF o.fixed THEN Plus(ctime, o.period) ELSE 0]

\* the slip of keeping the old window_start on a reset
refill_window_start_keep(o, bucket, t) ==
    LET ws == IF bucket.window_start # 0 THEN bucket.window_start ELSE t
        window1 == (bucket.mtime - ws) \div o.period
        window2 == (t - ws) \div o.period
    IN  IF window1 = window2
        THEN [bucket |-> [bucket EXCEPT !.window_start = ws], tokens |-> 0]
        ELSE [bucket |-> [bucket EXCEPT !.window_start = ws], tokens |-> Size(o)]

\* refill of generation A, fixed: [bucket |-> the bucket as mutated, tokens |-> the refill]
refill_window_start(o, bucket, t) ==
    LET ws == IF bucket.window_start # 0 THEN bucket.window_start ELSE t
        window1 == (bucket.mtime - ws) \div o.period
        window2 == (t - ws) \div o.period
    IN  IF window1 = window2
        THEN [bucket |-> [bucket EXCEPT !.window_start = ws], tokens |-> 0]
        ELSE [bucket |-> [bucket EXCEPT !.window_start = t], tokens |-> Size(o)]

\* the slip of taking the elapsed time with the wrong sign
refill_rolling_sign(o, bucket, t) ==
    [bucket |-> bucket, tokens |-> 2 * o.amount * (bucket.mtime - t)]

\* rolling refill, all generations: rate * (t - bucket.mtime), in units
refill_rolling(o, bucket, t) ==
    [bucket |-> bucket, tokens |-> 2 * o.amount * (t - bucket.mtime)]

\* the slip of refilling one token inside the window
refill_etime_partial(o, bucket, t) ==
    IF Greater(t, bucket.etime)
    THEN [bucket |-> [bucket EXCEPT !.etime = Plus(t, o.period)], tokens |-> Size(o)]
    ELSE [bucket |-> bucket, tokens |-> Unit(o)]

\* refill_bucket of add_methods_fixed (generations B and C)
refill_etime(o, bucket, t) ==
    IF Greater(t, bucket.etime)
    THEN [bucket |-> [bucket EXCEPT !.etime = Plus(t, o.period)], tokens |-> Size(o)]
    ELSE [bucket |-> bucket, tokens |-> 0]

refill_bucket(o, bucket, t) ==
    IF ~o.fixed THEN refill_rolling(o, bucket, t)
    ELSE IF o.version = "A" THEN refill_window_start(o, bucket, t)
    ELSE refill_etime(o, bucket, t)

\* the slip of not clamping
clamp_none(value, max) == value

clamp_max(value, max) == IF value > max THEN max ELSE value

\* the slip of turning every request away from an empty bucket
drain_tokens_empty(bucket, cost, drain, now) ==
    IF bucket.tokens > 0 /\ bucket.tokens >= cost
    THEN [bucket |-> IF drain
                     THEN [bucket EXCEPT !.tokens = bucket.tokens - cost, !.mtime = now]
                     ELSE bucket,
          allowed |-> TRUE]
    ELSE [bucket |-> bucket, allowed |-> FALSE]

\* drain_tokens(bucket, cost, drain) of generation C; now is its Date.now()
drain_tokens(bucket, cost, drain, now) ==
    IF bucket.tokens >= cost
    THEN [bucket |-> IF drain
                     THEN [bucket EXCEPT !.tokens = bucket.tokens - cost, !.mtime = now]
                     ELSE bucket,
          allowed |-> TRUE]
    ELSE [bucket |-> bucket, allowed |-> FALSE]

\* the slip of a strict comparison
drain_tokens2_strict(bucket, cost) ==
    IF bucket.tokens > cost
    THEN [bucket |-> [bucket EXCEPT !.tokens = bucket.tokens - cost], allowed |-> TRUE]
    ELSE [bucket |-> bucket, allowed |-> FALSE]

\* drain_tokens(bucket, cost) of generation B
drain_tokens2(bucket, cost) ==
    IF bucket.tokens >= cost
    THEN [bucket |-> [bucket EXCEPT !.tokens = bucket.tokens - cost], allowed |-> TRUE]
    ELSE [bucket |-> bucket, allowed |-> FALSE]

\* update_bucket of generation A: refilled is bucket.tokens after the clamped refill
update_bucket(o, bucket, cost, t) ==
    LET r == refill_bucket(o, bucket, t)
        b == [r.bucket EXCEPT !.tokens = clamp_max(r.bucket.tokens + r.tokens, Size(o)),
                              !.mtime = t,
                              !.rtime = Abs(o.period - (t % o.period))]
    IN  IF b.tokens >= cost
        THEN [bucket |-> [b EXCEPT !.tokens = b.tokens - cost], allowed |-> TRUE,
              refilled |-> b.tokens, refill |-> r.tokens]
        ELSE [bucket |-> b, allowed |-> FALSE, refilled |-> b.tokens, refill |-> r.tokens]

\* the slip of storing a rejected request's bucket without the refill it computed
handle_b_discard(o, bucket, cost, t) ==
    LET r == refill_bucket(o, bucket, t)
        b == [r.bucket EXCEPT !.tokens = clamp_max(r.bucket.tokens + r.tokens, Size(o))]
        d == drain_tokens2(b, cost)
    IN  [bucket |-> IF d.allowed THEN [d.bucket EXCEPT !.mtime = t]
                                 ELSE [bucket EXCEPT !.mtime = t],
         allowed |-> d.allowed, refilled |-> b.tokens, refill |-> r.tokens]

\* the handler of generation B, from var t = Date.now() to the bucket passed to store.set
handle_b(o, bucket, cost, t) ==
    LET r == refill_bucket(o, bucket, t)
        b == [r.bucket EXCEPT !.tokens = clamp_max(r.bucket.tokens + r.tokens, Size(o))]
        d == drain_tokens2(b, cost)
    IN  [bucket |-> [d.bucket EXCEPT !.mtime = t], allowed |-> d.allowed,
         refilled |-> b.tokens, refill |-> r.tokens]

\* the slip of never subtracting at admission
handle_c_nodrain(o, bucket, cost, t, now) ==
    LET r == refill_bucket(o, bucket, t)
        b == [r.bucket EXCEPT !.tokens = clamp_max(r.bucket.tokens + r.tokens, Size(o))]
        d == drain_tokens(b, cost, FALSE, now)
    IN  [bucket |-> d.bucket, allowed |-> d.allowed,
         refilled |-> b.tokens, refill |-> r.tokens]

\* the handler of generation C; now is the Date.now() of drain_tokens
handle_c(o, bucket, cost, t, now) ==
    LET r == refill_bucket(o, bucket, t)
        b == [r.bucket EXCEPT !.tokens = clamp_max(r.bucket.tokens + r.tokens, Size(o))]
        d == drain_tokens(b, cost, o.auto_drain, now)
    IN  [bucket |-> d.bucket, allowed |-> d.allowed,
         refilled |-> b.tokens, refill |-> r.tokens]

-----------------------------------------------------------------------------
(* Observations kept for the properties; the handlers never read them *)

NoHist == [sub_valid |-> FALSE, sub_t |-> 0, sub_bal |-> 0,
           debt |-> 0, debt_t |-> 0, spent |-> 0, bal_t |-> 0, req_t |-> 0,
           gone |-> FALSE, adm |-> << >>]

NoLast == [valid |-> FALSE, key |-> "k1", t |-> 0, cost |-> 0, hit |-> FALSE,
           pre |-> NoBucket, seen |-> 0, refill |-> 0, allowed |-> FALSE,
           post |-> NoBucket, sub_valid |-> FALSE, sub_t |-> 0, sub_bal |-> 0,
           err |-> "none", events |-> << >>, bal_t |-> 0, prev_t |-> 0,
           gone |-> FALSE]

\* no options object is followed
NoConf == [state |-> "none"]

NoRun == [active |-> FALSE, key |-> "k1", t |-> 0, n |-> 0, count |-> 0,
          admitted |-> 0, bal |-> 0, last_allowed |-> FALSE]

\* immediate consumption: the cost is subtracted when the request is admitted
Immediate(o) == o.auto_drain

\* the largest value the debt and spent observations are followed to
Ceiling(o) == Size(o) + CostUnits(o, MaxCost)

\* the sum of the numbers of a sequence
RECURSIVE SumSeq(_)
SumSeq(q) == IF q = << >> THEN 0 ELSE Head(q) + SumSeq(Tail(q))

\* the costs admitted per millisecond, latest first, over the o.period
\* milliseconds up to t, after cost was admitted at t; adm is the same up to t0
adm_after(o, adm, t0, t, cost) ==
    LET gap == [i \in 1..(t - t0 - 1) |-> 0]
        all == IF adm = << >> THEN <<cost>>
               ELSE IF t = t0
               THEN <<Min(Head(adm) + cost, 3 * Size(o))>> \o Tail(adm)
               ELSE <<cost>> \o gap \o adm
    IN  SubSeq(all, 1, Min(Len(all), o.period))

\* h after a request at time t that the handler answered with res
\* (cost in units; subtracted: tokens -= cost was executed); in deferred mode
\* bal_t is the time the stored balance was last computed, by a request or a drain;
\* req_t is the time of the key's latest request, followed in the specifications
\* that follow the options object; gone says that the store evicted the key's
\* bucket since the key's latest request; adm is followed in fixed mode, with
\* req_t
hist_after(o, h, res, cost, t, hit, subtracted) ==
    LET leaked == Max(h.debt - 2 * o.amount * (t - h.debt_t), 0)
        sub == IF subtracted
               THEN [h EXCEPT !.sub_valid = TRUE, !.sub_t = res.bucket.mtime,
                              !.sub_bal = res.bucket.tokens]
               ELSE h
        dbt == IF ~o.fixed /\ Immediate(o) /\ res.allowed
               THEN [sub EXCEPT !.debt = Min(leaked + cost, Ceiling(o)), !.debt_t = t]
               ELSE sub
        base == IF res.refill > 0 \/ ~hit THEN 0 ELSE h.spent
        spt == IF o.fixed /\ Immediate(o)
               THEN [dbt EXCEPT !.spent = Max(Min(base + (IF res.allowed THEN cost ELSE 0),
                                                  Ceiling(o)),
                                              0 - Ceiling(o))]
               ELSE dbt
        rqt == IF conf.state = "none" THEN [spt EXCEPT !.gone = FALSE]
               ELSE [spt EXCEPT !.req_t = t, !.gone = FALSE,
                                !.adm = IF o.fixed /\ o.period # NaN
                                        THEN adm_after(o, h.adm, h.req_t, t,
                                                       IF res.allowed THEN cost ELSE 0)
                                        ELSE h.adm]
    IN  IF Immediate(o) THEN rqt ELSE [rqt EXCEPT !.bal_t = t]

last_after(k, t, c, hit, pre, res, h) ==
    [valid |-> TRUE, key |-> k, t |-> t, cost |-> c, hit |-> hit, pre |-> pre,
     seen |-> res.refilled, refill |-> res.refill, allowed |-> res.allowed,
     post |-> res.bucket, sub_valid |-> h.sub_valid, sub_t |-> h.sub_t,
     sub_bal |-> h.sub_bal, err |-> "none", events |-> << >>, bal_t |-> h.bal_t,
     prev_t |-> h.req_t, gone |-> h.gone]

\* run after a request of cost c (in half tokens) for key k at time t
run_after(o, r, k, t, c, res) ==
    IF o.fixed \/ ~Immediate(o) \/ c # 2 THEN NoRun
    ELSE IF r.active /\ r.key = k /\ r.t = t /\ r.count <= r.n \div Unit(o)
    THEN [r EXCEPT !.count = r.count + 1,
                   !.admitted = r.admitted + (IF res.allowed THEN 1 ELSE 0),
                   !.bal = res.bucket.tokens, !.last_allowed = res.allowed]
    ELSE [active |-> TRUE, key |-> k, t |-> t, n |-> res.refilled, count |-> 1,
          admitted |-> IF res.allowed THEN 1 ELSE 0, bal |-> res.bucket.tokens,
          last_allowed |-> res.allowed]

probe_after(p, t, c, res) ==
    IF p.on /\ Len(p.log) < 5
    THEN [p EXCEPT !.log = Append(p.log, [at |-> t - 1, cost |-> c,
                                          allowed |-> res.allowed,
                                          tokens |-> res.bucket.tokens])]
    ELSE p

-----------------------------------------------------------------------------
(* The middleware.  The get, compute and set of one request run in one turn *)
(* of the event loop with the MemoryStore and with a custom store that      *)
(* completes synchronously; a custom store that completes asynchronously is *)
(* followed only along the runs in which each of its operations completes   *)
(* before anything else happens.  A custom store keeps copies of buckets.   *)

\* what the store may report to a request: no error, or an error of get or of set
StoreErrors(o) == IF o.store = "memory" THEN {"none"} ELSE {"none", "get", "set"}

\* the slip of going on after an error of store.get
callbacks_fallthrough(o, get_err, set_err, is_allowed) ==
    LET got == IF get_err THEN <<"next_err">> ELSE << >>
        done == IF set_err THEN <<"next_err">>
                ELSE IF is_allowed
                THEN <<"on_allowed">> \o (IF o.on_allowed = "default" THEN <<"next">>
                                                                     ELSE <<"respond">>)
                ELSE <<"on_throttled", "respond">>
        drain == IF o.version = "C" THEN <<"install">> ELSE << >>
        defer == IF ~o.auto_drain /\ is_allowed THEN <<"wrap", "next">> ELSE << >>
    IN  <<"get">> \o got \o <<"set">> \o done \o drain \o defer

\* what a request calls, in order, from store.get on: the store operations, the
\* error channel next(err), the callback of store.set without an error
\* ("set_ok"), the hooks with what they do (the default on_allowed
\* calls next(), the other hooks answer the request), the installation of
\* req.drain ("install": the empty function, "wrap": the draining closure) and
\* the direct next() of the deferred mode
callbacks(o, get_err, set_err, is_allowed) ==
    LET done == IF set_err THEN <<"next_err">>
                ELSE IF is_allowed
                THEN <<"set_ok", "on_allowed">>
                         \o (IF o.on_allowed = "default" THEN <<"next">>
                                                          ELSE <<"respond">>)
                ELSE <<"set_ok", "on_throttled", "respond">>
        drain == IF o.version = "C" THEN <<"install">> ELSE << >>
        defer == IF ~o.auto_drain /\ is_allowed THEN <<"wrap", "next">> ELSE << >>
    IN  IF get_err THEN <<"get", "next_err">>
        ELSE IF o.store = "async"
        THEN <<"get", "set">> \o drain \o defer \o done
        ELSE <<"get", "set">> \o done \o drain \o defer

\* the closure req.drain a request admitted in deferred mode leaves behind (the
\* req.drain of any other request is the empty function and is not kept):
\* drained is its flag; bucket is its bucket object when that is not the object
\* the cache holds, kept until the closure has drained.  Observations: again (it was called after its first call),
\* subs, sets (the subtractions and the store.set calls it made), err (what
\* became of an error of its store.set), req (the request it belongs to, where
\* requests are told apart)
Wrapper(k, c, bucket) ==
    [key |-> k, cost |-> c, drained |-> FALSE, again |-> FALSE,
     subs |-> 0, sets |-> 0, bucket |-> bucket, err |-> "none", req |-> 0]

Observe(k, c, t, hit, pre, res, subtracted, ev) ==
    /\ last' = [last_after(k, t, c, hit, pre, res, hist[k]) EXCEPT !.events = ev]
    /\ hist' = [hist EXCEPT ![k] = hist_after(opts, hist[k], res, CostUnits(opts, c),
                                              t, hit, subtracted)]
    /\ run' = run_after(opts, run, k, t, c, res)
    /\ probe' = probe_after(probe, t, c, res)

\* a request the store failed: only what it called is kept
ObserveError(k, c, t, err, res, ev) ==
    /\ last' = [NoLast EXCEPT !.key = k, !.t = t, !.cost = c, !.err = err,
                              !.allowed = (err = "set" /\ res.allowed), !.events = ev]
    /\ run' = NoRun
    /\ UNCHANGED <<hist, probe>>

\* the slip of one bucket for all keys
Handle_shared(k, c, t, hit, pre, res, subtracted, err) ==
    LET ev == callbacks(opts, err = "get", err = "set", res.allowed)
    IN  /\ store' = IF err = "none" THEN [x \in DOMAIN store |-> res.bucket] ELSE store
        /\ IF err = "none" THEN Observe(k, c, t, hit, pre, res, subtracted, ev)
                           ELSE ObserveError(k, c, t, err, res, ev)

\* store.get(key, ...), the handler's computation, store.set(key, bucket, ...)
\* and the hooks
Handle(k, c, t, hit, pre, res, subtracted, err) ==
    LET ev == callbacks(opts, err = "get", err = "set", res.allowed)
    IN  /\ store' = IF err = "none" THEN [store EXCEPT ![k] = res.bucket] ELSE store
        /\ IF err = "none" THEN Observe(k, c, t, hit, pre, res, subtracted, ev)
                           ELSE ObserveError(k, c, t, err, res, ev)

ThrottleA(k, c) ==
    /\ opts.version = "A"
    /\ \E err \in StoreErrors(opts) :
         LET t == clock
             hit == store[k] # NoBucket
             pre == IF hit THEN store[k] ELSE create_bucket(opts, t)
             res == update_bucket(opts, pre, CostUnits(opts, c), t)
         IN  Handle(k, c, t, hit, pre, res, res.allowed, err)
    /\ UNCHANGED <<opts, clock, drains, conf, flight>>

ThrottleB(k, c) ==
    /\ opts.version = "B"
    /\ \E err \in StoreErrors(opts) :
         LET t == clock
             hit == store[k] # NoBucket
             pre == IF hit THEN store[k] ELSE create_bucket(opts, t)
             res == handle_b(opts, pre, CostUnits(opts, c), t)
         IN  Handle(k, c, t, hit, pre, res, res.allowed, err)
    /\ UNCHANGED <<opts, clock, drains, conf, flight>>

\* the handler of generation C, followed with up to room closures pending
Throttle(k, c, room) ==
    /\ opts.version = "C"
    /\ \E now \in {clock, clock + 1}, err \in StoreErrors(opts) :
         LET t == clock
             hit == store[k] # NoBucket
             pre == IF hit THEN store[k] ELSE create_bucket(opts, t)
             res == handle_c(opts, pre, CostUnits(opts, c), t, now)
             subtracted == res.allowed /\ opts.auto_drain
             deferred == err # "get" /\ res.allowed /\ ~opts.auto_drain
         IN  /\ now # t => (subtracted /\ now <= MaxTime /\ err # "get")
             /\ deferred => Len(drains) < room
             /\ clock' = now
             /\ drains' = IF deferred
                          THEN Append(drains,
                                      Wrapper(k, c, IF opts.store = "memory"
                                                    THEN NoBucket ELSE res.bucket))
                          ELSE drains
             /\ Handle(k, c, t, hit, pre, res, subtracted, err)
    /\ UNCHANGED <<opts, conf, flight>>

ThrottleC(k, c) == Throttle(k, c, MaxDrains)

\* the slip of draining without looking at the flag
req_drain_again(h, bucket, cost, now) ==
    LET d == drain_tokens(bucket, cost, TRUE, now)
    IN  [bucket |-> d.bucket, set |-> TRUE, sub |-> d.allowed]

\* the closure req.drain of a request admitted in deferred mode, called at now on
\* its bucket: the bucket after it, whether it called store.set, whether it
\* subtracted
req_drain(h, bucket, cost, now) ==
    IF h.drained THEN [bucket |-> bucket, set |-> FALSE, sub |-> FALSE]
    ELSE LET d == drain_tokens(bucket, cost, TRUE, now)
         IN  [bucket |-> d.bucket, set |-> TRUE, sub |-> d.allowed]

\* a call of req.drain() of the i-th pending request; with the MemoryStore the closure's
\* bucket is the object the cache holds for the key
Drain(i) ==
    /\ i \in 1..Len(drains)
    /\ \E fail \in BOOLEAN :
         LET h == drains[i]
             mine == IF opts.store = "memory" THEN store[h.key] ELSE h.bucket
             r == req_drain(h, mine, CostUnits(opts, h.cost), clock)
         IN  /\ fail => (opts.store # "memory" /\ r.set)
             /\ IF ~r.set
                THEN /\ drains' = [drains EXCEPT ![i].again = TRUE]
                     /\ UNCHANGED <<store, hist, last>>
                ELSE /\ drains' =
                          [drains EXCEPT ![i] =
                              [h EXCEPT
                                  !.drained = TRUE,
                                  !.again = h.drained,
                                  !.subs = Min(h.subs + (IF r.sub THEN 1 ELSE 0), MaxCalls),
                                  !.sets = Min(h.sets + 1, MaxCalls),
                                  !.bucket = NoBucket,
                                  !.err = IF ~fail THEN h.err
                                          ELSE IF opts.store = "sync" THEN "thrown"
                                          ELSE "uncaught"]]
                     /\ store' = IF fail THEN store
                                 ELSE [store EXCEPT ![h.key] = r.bucket]
                     /\ hist' = IF fail THEN hist
                                ELSE IF r.sub
                                THEN [hist EXCEPT ![h.key].sub_valid = TRUE,
                                                  ![h.key].sub_t = r.bucket.mtime,
                                                  ![h.key].sub_bal = r.bucket.tokens,
                                                  ![h.key].bal_t = clock]
                                ELSE [hist EXCEPT ![h.key].bal_t = clock]
                     /\ last' = [NoLast EXCEPT !.key = h.key, !.t = clock, !.cost = h.cost,
                                               !.pre = mine, !.post = r.bucket,
                                               !.events = <<"drain">>]
    /\ UNCHANGED <<opts, clock, run, probe, conf, flight>>

\* the oldest pending request is finished and its closure dropped
Forget ==
    /\ drains # << >>
    /\ drains' = Tail(drains)
    /\ UNCHANGED <<opts, clock, store, last, hist, run, probe, conf, flight>>

Tick ==
    /\ clock < MaxTime
    /\ clock' = clock + 1
    /\ UNCHANGED <<opts, store, drains, last, hist, run, probe, conf, flight>>

Init ==
    /\ opts \in { parse(o) : o \in { x \in Options : accepted(x) } }
    /\ clock = 1
    /\ store = [k \in Keys |-> NoBucket]
    /\ drains = << >>
    /\ last = NoLast
    /\ hist = [k \in Keys |-> NoHist]
    /\ run = NoRun
    /\ probe = [on |-> FALSE, log |-> << >>]
    /\ conf = NoConf
    /\ flight = << >>

Next ==
    \/ \E k \in DOMAIN store, c \in cost_func(opts) : ThrottleA(k, c)
    \/ \E k \in DOMAIN store, c \in cost_func(opts) : ThrottleB(k, c)
    \/ \E k \in DOMAIN store, c \in cost_func(opts) : ThrottleC(k, c)
    \/ \E i \in 1..MaxDrains : Drain(i)
    \/ Forget
    \/ Tick

Spec == Init /\ [][Next]_vars

-----------------------------------------------------------------------------
(* The scenarios of test/throttle.unit.js ("rolling window", "fixed window"): *)
(* burst 2 and one token per 100 ms, requests at the start and when the       *)
(* timers of the test fire                                                    *)

ExamplePeriod == 100
ExampleBurst == 2
ExampleGap1 == 50
ExampleGap2 == 120
ExampleGap3 == 140
ExampleGap4 == 320

ExampleOptions == OptionsOf({<<1, ExamplePeriod>>}, {ExampleBurst}, {"absent"})

InitExample ==
    /\ opts \in { parse(o) : o \in { x \in ExampleOptions : accepted(x) } }
    /\ clock = 1
    /\ store = [k \in Keys |-> NoBucket]
    /\ drains = << >>
    /\ last = NoLast
    /\ hist = [k \in Keys |-> NoHist]
    /\ run = NoRun
    /\ probe = [on |-> TRUE, log |-> << >>]
    /\ conf = NoConf
    /\ flight = << >>

\* a timer of the test fires
TickExample ==
    /\ \E g \in {ExampleGap1, ExampleGap2, ExampleGap3, ExampleGap4} :
         /\ clock < 1 + g
         /\ clock' = 1 + g
    /\ UNCHANGED <<opts, store, drains, last, hist, run, probe, conf, flight>>

NextExample ==
    \/ \E k \in DOMAIN store, c \in cost_func(opts) : ThrottleA(k, c)
    \/ \E k \in DOMAIN store, c \in cost_func(opts) : ThrottleB(k, c)
    \/ \E k \in DOMAIN store, c \in cost_func(opts) : ThrottleC(k, c)
    \/ \E i \in 1..MaxDrains : Drain(i)
    \/ Forget
    \/ TickExample

SpecExample == InitExample /\ [][NextExample]_vars

-----------------------------------------------------------------------------
(* The deferred mode of generation C with one more pending closure *)

DrainOptions ==
    OptionsFor({"C"}, Rates, Bursts, CostOptions({"absent"}, {}), {"false"},
               {"memory"}, {"custom"})

InitDrain ==
    /\ opts \in { parse(o) : o \in { x \in DrainOptions : accepted(x) } }
    /\ clock = 1
    /\ store = [k \in Keys |-> NoBucket]
    /\ drains = << >>
    /\ last = NoLast
    /\ hist = [k \in Keys |-> NoHist]
    /\ run = NoRun
    /\ probe = [on |-> FALSE, log |-> << >>]
    /\ conf = NoConf
    /\ flight = << >>

NextDrain ==
    \/ \E k \in DOMAIN store, c \in cost_func(opts) : Throttle(k, c, MaxDrains + 1)
    \/ \E i \in 1..(MaxDrains + 1) : Drain(i)
    \/ Forget
    \/ Tick

SpecDrain == InitDrain /\ [][NextDrain]_vars

-----------------------------------------------------------------------------
(* The store contract and the hooks: every store, every on_allowed,          *)
(* auto_drain given or not, the default cost                                 *)

StoreOptions ==
    OptionsFor(Versions, {<<1, 2>>}, {2}, CostOptions({"absent"}, {}), DrainOpts,
               Stores, Hooks)

InitStore ==
    /\ opts \in { parse(o) : o \in { x \in StoreOptions : accepted(x) } }
    /\ clock = 1
    /\ store = [k \in Keys |-> NoBucket]
    /\ drains = << >>
    /\ last = NoLast
    /\ hist = [k \in Keys |-> NoHist]
    /\ run = NoRun
    /\ probe = [on |-> FALSE, log |-> << >>]
    /\ conf = NoConf
    /\ flight = << >>

SpecStore == InitStore /\ [][Next]_vars

-----------------------------------------------------------------------------
(* The options module: what parse_options makes of the options object.  A   *)
(* rate or period string is followed as the groups its pattern captures: a  *)
(* group that matched nothing is the empty sequence, a group of digits the  *)
(* sequence of its number.  Generation A is lib/options.js (the same code   *)
(* is in lib/throttle.js), generation B the module that knows 'period'.     *)

\* parseInt(group, 10) of a captured group
parseInt(group) == IF group = << >> THEN NaN ELSE group[1]

time_unit_to_ms(time_unit) == IF time_unit = "ms" THEN 1 ELSE 1000

\* the amounts and multipliers written in the strings
Digits == {0, 1, 2}
TimeUnits == {"ms", "s"}

\* rate strings "<num>/[<mult>]<unit>[:fixed]"
NoRate == [given |-> FALSE, num |-> 0, mult |-> << >>, unit |-> "ms", fixed |-> FALSE]
RateStrings ==
    { [given |-> TRUE, num |-> n, mult |-> m, unit |-> u, fixed |-> f] :
        n \in Digits, m \in {<< >>} \cup { <<d>> : d \in Digits }, u \in TimeUnits,
        f \in BOOLEAN }

\* period strings "[<mult>]<unit>"
NoPeriod == [given |-> FALSE, mult |-> << >>, unit |-> "ms"]
PeriodStrings ==
    { [given |-> TRUE, mult |-> m, unit |-> u] :
        m \in {<< >>} \cup { <<d>> : d \in Digits }, u \in TimeUnits }

\* burst values: not given, the numbers 0 and 2, the string "5"
BurstValues ==
    { [type |-> "undefined", value |-> 0], [type |-> "number", value |-> 0],
      [type |-> "number", value |-> 2], [type |-> "string", value |-> 5] }

truthy(b) == b.type = "string" \/ (b.type = "number" /\ b.value # 0)

Rejected == [error |-> TRUE, fixed |-> FALSE, amount |-> 0, period |-> 0, burst |-> 0]

\* parse_rate: A takes ":fixed" and any denominator; the pattern of B has no
\* ":fixed", and B throws on the denominator 0
parse_rate(version, rate) ==
    LET numerator == parseInt(<<rate.num>>)
        denominator == IF rate.mult = << >> THEN 1 ELSE parseInt(rate.mult)
    IN  IF version = "A"
        THEN [error |-> FALSE, fixed |-> rate.fixed, amount |-> numerator,
              period |-> Times(denominator, time_unit_to_ms(rate.unit)), burst |-> 0]
        ELSE IF rate.fixed \/ denominator = 0 THEN Rejected
        ELSE [error |-> FALSE, fixed |-> FALSE, amount |-> numerator,
              period |-> Times(denominator, time_unit_to_ms(rate.unit)), burst |-> 0]

\* parse_period: parseInt of the group that may have matched nothing
parse_period(period) ==
    LET amount == parseInt(period.mult)
    IN  IF amount = 0 THEN Rejected
        ELSE [error |-> FALSE, fixed |-> TRUE, amount |-> 0,
              period |-> Times(amount, time_unit_to_ms(period.unit)), burst |-> 0]

\* parse_options, as far as rate, period and burst go; A: the bucket size is
\* opts.burst || opts.rate.amount
parse_options(version, raw) ==
    IF version = "A"
    THEN IF ~raw.rate.given THEN Rejected
         ELSE IF truthy(raw.burst) /\ raw.burst.type # "number" THEN Rejected
         ELSE LET rate == parse_rate(version, raw.rate)
              IN  [rate EXCEPT !.burst = IF truthy(raw.burst) THEN raw.burst.value
                                         ELSE rate.amount]
    ELSE IF raw.rate.given
    THEN LET rate == parse_rate(version, raw.rate)
         IN  IF rate.error THEN Rejected
             ELSE IF truthy(raw.burst)
             THEN IF raw.burst.type # "number" THEN Rejected
                  ELSE [rate EXCEPT !.burst = raw.burst.value]
             ELSE [rate EXCEPT !.burst = rate.amount]
    ELSE IF raw.period.given
    THEN LET period == parse_period(raw.period)
         IN  IF period.error THEN Rejected
             ELSE IF raw.burst.type # "number" THEN Rejected
             ELSE [period EXCEPT !.burst = raw.burst.value]
    ELSE Rejected

\* the options objects given to throttle()
RawOptions ==
    { [rate |-> r, period |-> p, burst |-> b] :
        r \in {NoRate} \cup RateStrings, p \in {NoPeriod} \cup PeriodStrings,
        b \in BurstValues }

\* the options the handler works with: the default store, cost and hooks of the
\* test applications
configure(version, parsed) ==
    [version |-> version, fixed |-> parsed.fixed, amount |-> parsed.amount,
     period |-> parsed.period, burst |-> parsed.burst, auto_drain_opt |-> "true",
     auto_drain |-> TRUE, cost_kind |-> "absent", cost_num |-> 0,
     store |-> "memory", on_allowed |-> "custom"]

NoOptions == configure("none", Rejected)

\* throttle(options): the options are parsed, and the call throws or returns the
\* middleware
Setup ==
    /\ conf.state = "given"
    /\ LET parsed == parse_options(conf.version, conf.raw)
       IN  /\ conf' = [conf EXCEPT !.state = IF parsed.error THEN "rejected"
                                             ELSE "accepted",
                                   !.parsed = parsed]
           /\ opts' = IF parsed.error THEN opts ELSE configure(conf.version, parsed)
    /\ UNCHANGED <<clock, store, drains, last, hist, run, probe, flight>>

InitParse ==
    /\ conf \in { [state |-> "given", version |-> v, raw |-> raw, parsed |-> Rejected] :
                    v \in {"A", "B"}, raw \in RawOptions }
    /\ opts = NoOptions
    /\ clock = 1
    /\ store = [k \in Keys |-> NoBucket]
    /\ drains = << >>
    /\ last = NoLast
    /\ hist = [k \in Keys |-> NoHist]
    /\ run = NoRun
    /\ probe = [on |-> FALSE, log |-> << >>]
    /\ flight = << >>

NextParse == Setup

SpecParse == InitParse /\ [][NextParse]_vars

\* the options objects whose middleware is followed: one token per 2 ms, or a
\* period of 2 ms or of "ms", with burst 2 or, with a rate, without burst; the
\* cost is a function of the request
WaitOptions ==
    { raw \in RawOptions :
        /\ raw.rate.given # raw.period.given
        /\ raw.rate.given => (raw.rate.num = 1 /\ raw.rate.mult = <<2>>
                                /\ raw.rate.unit = "ms")
        /\ raw.period.given => (raw.period.mult # <<0>> /\ raw.period.unit = "ms")
        /\ raw.burst \in { [type |-> "undefined", value |-> 0],
                            [type |-> "number", value |-> 2] } }

InitWait ==
    /\ \E v \in {"A", "B"}, raw \in WaitOptions :
         LET parsed == parse_options(v, raw)
         IN  /\ ~parsed.error
             /\ conf = [state |-> "accepted", version |-> v, raw |-> raw,
                        parsed |-> parsed]
             /\ opts = [configure(v, parsed) EXCEPT !.cost_kind = "function"]
    /\ clock = 1
    /\ store = [k \in Keys |-> NoBucket]
    /\ drains = << >>
    /\ last = NoLast
    /\ hist = [k \in Keys |-> NoHist]
    /\ run = NoRun
    /\ probe = [on |-> FALSE, log |-> << >>]
    /\ flight = << >>

NextWait ==
    \/ \E k \in DOMAIN store, c \in cost_func(opts) : ThrottleA(k, c)
    \/ \E k \in DOMAIN store, c \in cost_func(opts) : ThrottleB(k, c)
    \/ Tick

SpecWait == InitWait /\ [][NextWait]_vars

\* the fixed windows of all generations: the rate "1/2ms:fixed" of A, the period
\* "2ms" of B and of C, with burst 2 or, in A, without burst; C with auto_drain
\* true or false; the cost is a function of the request, and 1 in deferred mode;
\* the options module of C is taken to parse rate, period and burst as that of
\* B does
FixedOptions ==
    { raw \in WaitOptions :
        /\ raw.rate.given => raw.rate.fixed
        /\ raw.period.given => raw.period.mult = <<2>> }

InitFixed ==
    /\ \E v \in Versions, raw \in FixedOptions, a \in {"true", "false"} :
         LET parsed == parse_options(IF v = "C" THEN "B" ELSE v, raw)
             o == [configure(v, parsed) EXCEPT !.auto_drain_opt = a,
                                               !.cost_kind = IF a = "true"
                                                             THEN "function"
                                                             ELSE "absent"]
         IN  /\ ~parsed.error
             /\ accepted(o)
             /\ conf = [state |-> "accepted", version |-> v, raw |-> raw,
                        parsed |-> parsed]
             /\ opts = [o EXCEPT !.auto_drain = default_auto_drain(o)]
    /\ clock = 1
    /\ store = [k \in Keys |-> NoBucket]
    /\ drains = << >>
    /\ last = NoLast
    /\ hist = [k \in Keys |-> NoHist]
    /\ run = NoRun
    /\ probe = [on |-> FALSE, log |-> << >>]
    /\ flight = << >>

SpecFixed == InitFixed /\ [][Next]_vars

-----------------------------------------------------------------------------
(* Several keys, and a MemoryStore that evicts.  The LRU cache of the       *)
(* MemoryStore drops the least recently used bucket when a set exceeds its  *)
(* size; the keys of other clients make that happen to any key between two  *)
(* of its requests.  Followed with immediate consumption, where no closure  *)
(* holds on to a bucket.                                                    *)

Keys2 == {"k1", "k2"}

\* the slip of a cache that keeps handing out the bucket it dropped
Evict_stale(k) ==
    /\ store[k] # NoBucket
    /\ ~hist[k].gone
    /\ hist' = [hist EXCEPT ![k].gone = TRUE]
    /\ UNCHANGED <<opts, clock, store, drains, last, run, probe, conf, flight>>

\* the cache drops the bucket of key k
Evict(k) ==
    /\ store[k] # NoBucket
    /\ store' = [store EXCEPT ![k] = NoBucket]
    /\ hist' = [hist EXCEPT ![k].gone = TRUE]
    /\ UNCHANGED <<opts, clock, drains, last, run, probe, conf, flight>>

KeysOptions ==
    OptionsFor(Versions, {<<1, 2>>}, {0}, CostOptions({"absent"}, {}), {"true"},
               {"memory"}, {"custom"})

InitKeys ==
    /\ opts \in { parse(o) : o \in { x \in KeysOptions : accepted(x) } }
    /\ clock = 1
    /\ store = [k \in Keys2 |-> NoBucket]
    /\ drains = << >>
    /\ last = NoLast
    /\ hist = [k \in Keys2 |-> NoHist]
    /\ run = NoRun
    /\ probe = [on |-> FALSE, log |-> << >>]
    /\ conf = NoConf
    /\ flight = << >>

NextKeys ==
    \/ \E k \in DOMAIN store, c \in cost_func(opts) : ThrottleA(k, c)
    \/ \E k \in DOMAIN store, c \in cost_func(opts) : ThrottleB(k, c)
    \/ \E k \in DOMAIN store, c \in cost_func(opts) : ThrottleC(k, c)
    \/ \E k \in DOMAIN store : Evict(k)
    \/ Tick

SpecKeys == InitKeys /\ [][NextKeys]_vars

-----------------------------------------------------------------------------
(* Concurrent requests.  The handler of generation B calls store.get and    *)
(* returns; the rest of it runs in the callback of store.get, and the hooks *)
(* in the callback of store.set.  With a store that completes later, other  *)
(* requests are served between the call and the callback.                   *)

\* the asynchronous requests followed at once
MaxFlight == 3

NoRes == [bucket |-> NoBucket, allowed |-> FALSE, refilled |-> 0, refill |-> 0]

\* the slip of a MemoryStore that defers its callbacks
completes_later_always(o) == TRUE

\* MemoryStore.get and MemoryStore.set call the callback before they return;
\* the asynchronous custom store calls it in a later turn of the event loop
completes_later(o) == o.store = "async"

\* the handler is called for key k with cost c: it calls store.get; with a store
\* that calls back at once, the whole handler runs before anything else
Call(k, c) ==
    /\ opts.version = "B"
    /\ IF completes_later(opts)
       THEN /\ Len(flight) < MaxFlight
            /\ flight' = Append(flight, [key |-> k, cost |-> c, pc |-> "get", t |-> 0,
                                         hit |-> FALSE, read |-> NoBucket,
                                         res |-> NoRes])
            /\ UNCHANGED <<opts, clock, store, drains, last, hist, run, probe, conf>>
       ELSE ThrottleB(k, c)

\* the callback of store.get of request i: the store hands over a copy of the
\* bucket it holds now; the handler computes on it and calls store.set
GetDone(i) ==
    /\ i \in 1..Len(flight)
    /\ flight[i].pc = "get"
    /\ LET f == flight[i]
           t == clock
           hit == store[f.key] # NoBucket
           pre == IF hit THEN store[f.key] ELSE create_bucket(opts, t)
           res == handle_b(opts, pre, CostUnits(opts, f.cost), t)
       IN  flight' = [flight EXCEPT ![i] = [f EXCEPT !.pc = "set", !.t = t,
                                                     !.hit = hit, !.read = pre,
                                                     !.res = res]]
    /\ UNCHANGED <<opts, clock, store, drains, last, hist, run, probe, conf>>

\* the design that computes again on the bucket the store holds at the write
SetDone_locked(i) ==
    /\ i \in 1..Len(flight)
    /\ flight[i].pc = "set"
    /\ LET f == flight[i]
           hit == store[f.key] # NoBucket
           pre == IF hit THEN store[f.key] ELSE create_bucket(opts, f.t)
           res == handle_b(opts, pre, CostUnits(opts, f.cost), Max(f.t, pre.mtime))
       IN  /\ store' = [store EXCEPT ![f.key] = res.bucket]
           /\ Observe(f.key, f.cost, f.t, hit, pre, res, res.allowed,
                      callbacks(opts, FALSE, FALSE, res.allowed))
           /\ flight' = [flight EXCEPT ![i] = [f EXCEPT !.pc = "done", !.res = res]]
    /\ UNCHANGED <<opts, clock, drains, conf>>

\* the store completes the set of request i: it keeps the bucket it was given,
\* and its callback calls the hook
SetDone(i) ==
    /\ i \in 1..Len(flight)
    /\ flight[i].pc = "set"
    /\ LET f == flight[i]
       IN  /\ store' = [store EXCEPT ![f.key] = f.res.bucket]
           /\ Observe(f.key, f.cost, f.t, f.hit, f.read, f.res, f.res.allowed,
                      callbacks(opts, FALSE, FALSE, f.res.allowed))
           /\ flight' = [flight EXCEPT ![i] = [f EXCEPT !.pc = "done"]]
    /\ UNCHANGED <<opts, clock, drains, conf>>

RaceOptions ==
    OptionsFor({"B"}, {<<1, 2>>}, {2}, CostOptions({"absent"}, {}), {"true"},
               {"memory", "async"}, {"custom"})

InitRace ==
    /\ opts \in { parse(o) : o \in { x \in RaceOptions : accepted(x) } }
    /\ clock = 1
    /\ store = [k \in Keys |-> NoBucket]
    /\ drains = << >>
    /\ last = NoLast
    /\ hist = [k \in Keys |-> NoHist]
    /\ run = NoRun
    /\ probe = [on |-> FALSE, log |-> << >>]
    /\ conf = NoConf
    /\ flight = << >>

NextRace ==
    \/ \E k \in DOMAIN store, c \in cost_func(opts) : Call(k, c)
    \/ \E i \in 1..MaxFlight : GetDone(i)
    \/ \E i \in 1..MaxFlight : SetDone(i)
    \/ Tick

SpecRace == InitRace /\ [][NextRace]_vars

-----------------------------------------------------------------------------
(* Two middlewares of generation C in deferred mode stacked on one route,   *)
(* as app.get("/", throttle(..), throttle(..), handler) of the test "mixed  *)
(* auto_drain" stacks them: each throttle() has its own MemoryStore, and    *)
(* store[l] is the bucket the store of middleware l holds for the key of    *)
(* the requests.  The hooks answer without calling next(), so a middleware  *)
(* hands an admitted request on once, by the next() of its deferred branch. *)

Layers == {"first", "second"}

StackOptions ==
    OptionsFor({"C"}, {<<1, 2>>}, {1, 2}, CostOptions({"absent"}, {}), {"false"},
               {"memory"}, {"custom"})

InitStack ==
    /\ opts \in { parse(o) : o \in { x \in StackOptions : accepted(x) } }
    /\ clock = 1
    /\ store = [l \in Layers |-> NoBucket]
    /\ drains = << >>
    /\ last = NoLast
    /\ hist = [l \in Layers |-> NoHist]
    /\ run = NoRun
    /\ probe = [on |-> FALSE, log |-> << >>]
    /\ conf = NoConf
    /\ flight = << >>

\* the requests whose req.drain is kept
Pending == { drains[i].req : i \in DOMAIN drains }

\* closure h after the closure that middleware l installed on request r ran with
\* the outcome res: `drained` is a variable of the handler's call
closures_after(r, l, h, res) ==
    IF h.key # l \/ h.req # r THEN h
    ELSE IF ~res.set THEN [h EXCEPT !.again = TRUE]
    ELSE [h EXCEPT !.drained = TRUE, !.again = h.drained,
                   !.subs = Min(h.subs + (IF res.sub THEN 1 ELSE 0), MaxCalls),
                   !.sets = Min(h.sets + 1, MaxCalls)]

\* one request through the route: the first middleware and, when that one hands
\* the request on, the second; each admitting middleware wraps req.drain
StackRequest(c) ==
    /\ \E r \in (1..(MaxDrains + 1)) \ Pending :
         LET t == clock
             pre1 == IF store["first"] # NoBucket THEN store["first"]
                     ELSE create_bucket(opts, t)
             res1 == handle_c(opts, pre1, CostUnits(opts, c), t, t)
             pre2 == IF store["second"] # NoBucket THEN store["second"]
                     ELSE create_bucket(opts, t)
             res2 == handle_c(opts, pre2, CostUnits(opts, c), t, t)
             w1 == [Wrapper("first", c, NoBucket) EXCEPT !.req = r]
             w2 == [Wrapper("second", c, NoBucket) EXCEPT !.req = r]
             at == IF res1.allowed THEN "second" ELSE "first"
             res == IF res1.allowed THEN res2 ELSE res1
         IN  /\ \A x \in (1..(MaxDrains + 1)) \ Pending : r <= x
             /\ store' = [store EXCEPT !["first"] = res1.bucket,
                                       !["second"] = IF res1.allowed THEN res2.bucket
                                                     ELSE @]
             /\ drains' = drains \o (IF res1.allowed THEN <<w1>> ELSE << >>)
                                 \o (IF res1.allowed /\ res2.allowed THEN <<w2>>
                                                                       ELSE << >>)
             /\ last' = [last_after(at, t, c, store[at] # NoBucket,
                                    IF res1.allowed THEN pre2 ELSE pre1, res, hist[at])
                            EXCEPT !.events = callbacks(opts, FALSE, FALSE, res.allowed)]
    /\ UNCHANGED <<opts, clock, hist, run, probe, conf, flight>>

\* one call of req.drain() of the pending request r: the closure of the second
\* middleware calls the req.drain it found, that of the first, and then drains
\* on its own flag; each closure works on the bucket of its own store
StackDrain(r) ==
    /\ r \in Pending
    /\ LET mine(l) == { i \in DOMAIN drains : drains[i].req = r /\ drains[i].key = l }
           out(l) == LET i == CHOOSE i \in mine(l) : TRUE
                     IN  req_drain(drains[i], store[l],
                                   CostUnits(opts, drains[i].cost), clock)
       IN  /\ store' = [l \in Layers |->
                           IF mine(l) # {} /\ out(l).set THEN out(l).bucket
                           ELSE store[l]]
           /\ drains' = [i \in DOMAIN drains |->
                            LET l == drains[i].key
                            IN  IF mine(l) = {} THEN drains[i]
                                ELSE closures_after(r, l, drains[i], out(l))]
           /\ last' = [NoLast EXCEPT !.t = clock, !.events = <<"drain">>]
    /\ UNCHANGED <<opts, clock, hist, run, probe, conf, flight>>

\* the oldest pending request is finished and its closures dropped
StackForget ==
    /\ drains # << >>
    /\ drains' = SelectSeq(drains, LAMBDA h : h.req # Head(drains).req)
    /\ UNCHANGED <<opts, clock, store, last, hist, run, probe, conf, flight>>

NextStack ==
    \/ \E c \in cost_func(opts) : StackRequest(c)
    \/ \E r \in 1..(MaxDrains + 1) : StackDrain(r)
    \/ StackForget
    \/ Tick

SpecStack == InitStack /\ [][NextStack]_vars

-----------------------------------------------------------------------------
(* Cost functions that return any number: parse_options takes every         *)
(* function as cost and the handlers use what it returns as it is           *)

\* what a cost function may return, in half tokens, negative numbers included
SignedCosts == (0 - MaxCost)..MaxCost

SignedOptions ==
    OptionsFor(Versions, {<<1, 2>>}, {2}, CostOptions({"function"}, {}), {"true"},
               {"memory"}, {"custom"})

InitCost ==
    /\ opts \in { parse(o) : o \in { x \in SignedOptions : accepted(x) } }
    /\ clock = 1
    /\ store = [k \in Keys |-> NoBucket]
    /\ drains = << >>
    /\ last = NoLast
    /\ hist = [k \in Keys |-> NoHist]
    /\ run = NoRun
    /\ probe = [on |-> FALSE, log |-> << >>]
    /\ conf = NoConf
    /\ flight = << >>

NextCost ==
    \/ \E k \in DOMAIN store, c \in SignedCosts : ThrottleA(k, c)
    \/ \E k \in DOMAIN store, c \in SignedCosts : ThrottleB(k, c)
    \/ \E k \in DOMAIN store, c \in SignedCosts : ThrottleC(k, c)
    \/ Tick

SpecCost == InitCost /\ [][NextCost]_vars

-----------------------------------------------------------------------------
(* Properties *)

\* C1: every bucket handed to Store.set, in every mode, holds
\* 0 <= tokens <= capacity
C1_TokensWithinCapacity ==
    /\ \A k \in Keys :
         store[k] # NoBucket => 0 <= store[k].tokens /\ store[k].tokens <= Size(opts)
    /\ last.valid => 0 <= last.post.tokens /\ last.post.tokens <= Size(opts)

\* a key idle for so long that the refill had to be clamped, then admitted
C1_Witness ==
    /\ last.valid /\ last.hit /\ last.allowed /\ last.cost > 0
    /\ last.pre.tokens + last.refill > Size(opts)
    /\ store[last.key] = last.post

\* C2: with immediate consumption a request is admitted iff the balance after
\* refill is >= its cost; admitted, it lowers the balance by exactly its cost;
\* rejected, by nothing
C2_AdmitIffEnough ==
    (last.valid /\ Immediate(opts)) =>
        LET cost == CostUnits(opts, last.cost)
        IN  /\ last.allowed <=> last.seen >= cost
            /\ store[last.key].tokens = IF last.allowed THEN last.seen - cost
                                                        ELSE last.seen

\* a request whose cost is exactly the balance
C2_Witness ==
    /\ last.valid /\ Immediate(opts) /\ last.cost > 0
    /\ last.seen = CostUnits(opts, last.cost)
    /\ last.allowed /\ store[last.key].tokens = 0

\* C3: rolling mode, in-memory store, immediate consumption: the cost admitted
\* in any interval [t0, t1] is at most capacity + rate * (t1 - t0).
\* hist[k].debt is the largest, over the admissions' times t0, of the cost admitted
\* in [t0, now] less rate * (now - t0); the claim is that it never exceeds capacity.
C3_RateBound ==
    \A k \in Keys :
        (~opts.fixed /\ Immediate(opts)) => hist[k].debt <= Size(opts)

\* C4: rolling mode, stored bucket (tokens, mtime), now >= mtime: the balance the
\* admission is decided on is min(tokens + rate * (now - mtime), capacity), never
\* below tokens, never above capacity
C4_RollingRefill ==
    (last.valid /\ ~opts.fixed /\ last.hit) =>
        /\ last.t >= last.pre.mtime
        /\ last.seen = Min(last.pre.tokens + 2 * opts.amount * (last.t - last.pre.mtime),
                           Size(opts))
        /\ last.seen >= last.pre.tokens
        /\ last.seen <= Size(opts)

\* a key idle for longer than it takes to fill the bucket
C4_Witness ==
    /\ last.valid /\ ~opts.fixed /\ last.hit
    /\ last.t - last.pre.mtime >= 2
    /\ last.pre.tokens + 2 * opts.amount * (last.t - last.pre.mtime) > Size(opts)
    /\ last.seen = Size(opts)

C6_RefillSinceLastSubtraction ==
    (last.valid /\ ~opts.fixed /\ last.hit /\ last.sub_valid /\ last.t >= last.sub_t) =>
        last.seen = Min(last.sub_bal + 2 * opts.amount * (last.t - last.sub_t),
                        Size(opts))

\* the scenario: four requests of cost 1 at 0, 0, +50 and +120 ms, burst 2,
\* one token per 100 ms, immediate consumption
Rolling4 ==
    /\ probe.on /\ ~opts.fixed /\ Immediate(opts)
    /\ opts.burst = ExampleBurst /\ opts.amount = 1 /\ opts.period = ExamplePeriod
    /\ Len(probe.log) >= 4
    /\ \A i \in 1..4 : probe.log[i].cost = 2
    /\ probe.log[1].at = 0 /\ probe.log[2].at = 0
    /\ probe.log[3].at = ExampleGap1 /\ probe.log[4].at = ExampleGap2

Rolling3Outcome ==
    /\ probe.log[1].allowed /\ probe.log[1].tokens = Unit(opts)
    /\ probe.log[2].allowed /\ probe.log[2].tokens = 0
    /\ ~probe.log[3].allowed

\* C7 as stated: 2 -> 1 -> 0, the request at +50 ms rejected and the request at
\* +120 ms rejected
C7_FourthRejected ==
    Rolling4 => (Rolling3Outcome /\ ~probe.log[4].allowed)

\* C7 amended: 2 -> 1 -> 0, the request at +50 ms rejected, and the request at
\* +120 ms admitted: the rejected request stored its refill, so at least 1.2
\* tokens are there at +120 ms and at least 0.2 are left
C7_FourthAdmitted ==
    Rolling4 => /\ Rolling3Outcome
                /\ probe.log[4].allowed
                /\ 5 * probe.log[4].tokens >= Unit(opts)

C7_Witness ==
    Rolling4 /\ probe.log[4].allowed /\ last.valid /\ last.t = 1 + ExampleGap2

WindowStart(o, bucket) ==
    IF o.version = "A" THEN bucket.window_start ELSE bucket.etime - o.period

WindowIndex(o, bucket, t) == (t - WindowStart(o, bucket)) \div o.period

\* C9 as stated: fixed mode: reset to full capacity, with window_start := now,
\* iff the window index of now differs from that of mtime; so a request exactly
\* period_ms after the window started gets a reset
C9_ResetIffIndexDiffers ==
    (last.valid /\ opts.fixed /\ last.hit) =>
        LET reset == last.refill > 0
        IN  /\ reset <=> WindowIndex(opts, last.pre, last.t)
                           # WindowIndex(opts, last.pre, last.pre.mtime)
            /\ reset => last.seen = Size(opts) /\ WindowStart(opts, last.post) = last.t
            /\ last.t = WindowStart(opts, last.pre) + opts.period => reset

\* C9 amended: with window_start as stated; with etime the reset happens iff
\* now > etime = window start + period_ms, and sets etime to now + period_ms, so a
\* request exactly period_ms after the window started gets no reset
C9_ResetPerImplementation ==
    (last.valid /\ opts.fixed /\ last.hit) =>
        LET reset == last.refill > 0
        IN  /\ reset => last.seen = Size(opts) /\ WindowStart(opts, last.post) = last.t
            /\ ~reset => last.seen = last.pre.tokens
                         /\ WindowStart(opts, last.post) = WindowStart(opts, last.pre)
            /\ opts.version = "A" =>
                /\ reset <=> WindowIndex(opts, last.pre, last.t)
                               # WindowIndex(opts, last.pre, last.pre.mtime)
                /\ last.t = WindowStart(opts, last.pre) + opts.period => reset
            /\ opts.version # "A" =>
                /\ reset <=> last.t > last.pre.etime
                /\ last.t = WindowStart(opts, last.pre) + opts.period => ~reset

\* a request exactly period_ms after the window started, reset (window_start)
C9_Witness ==
    /\ last.valid /\ opts.fixed /\ last.hit /\ opts.version = "A"
    /\ last.t = last.pre.window_start + opts.period
    /\ last.pre.tokens < Size(opts)
    /\ last.refill = Size(opts) /\ last.post.window_start = last.t

\* C10: a request of cost 0 is admitted whatever the balance, and leaves the
\* balance after refill as it is
C10_ZeroCostAdmitted ==
    (last.valid /\ last.cost = 0) =>
        /\ last.allowed
        /\ store[last.key].tokens = last.seen

\* cost 0 on an empty bucket
C10_Witness ==
    /\ last.valid /\ last.cost = 0 /\ last.hit
    /\ last.seen = 0 /\ last.allowed /\ store[last.key].tokens = 0

\* how often e is among the calls ev
Count(ev, e) == Cardinality({ i \in 1..Len(ev) : ev[i] = e })

\* C11: a cost configured as a number c >= 0 is what every request is charged:
\* admitted iff the balance after refill is >= c, and then c is subtracted; the
\* charge is 1 only when cost is absent
C11_NumberCostCharged ==
    last.valid =>
        /\ opts.cost_kind = "absent" => last.cost = 2
        /\ opts.cost_kind = "number" =>
            /\ last.cost = opts.cost_num
            /\ Immediate(opts) =>
                /\ last.allowed <=> last.seen >= CostUnits(opts, opts.cost_num)
                /\ store[last.key].tokens =
                       IF last.allowed THEN last.seen - CostUnits(opts, opts.cost_num)
                                       ELSE last.seen

\* C12: an error of Store.get goes to the error channel exactly once; Store.set
\* is not called and no hook is invoked for that request
C12_GetErrorShortCircuits ==
    last.err = "get" =>
        /\ Count(last.events, "next_err") = 1
        /\ Count(last.events, "set") = 0
        /\ Count(last.events, "on_allowed") = 0
        /\ Count(last.events, "on_throttled") = 0
        /\ Count(last.events, "next") = 0

\* a request for a key that has a bucket, failed by the store's get
C12_Witness ==
    /\ last.err = "get" /\ store[last.key] # NoBucket
    /\ last.events = <<"get", "next_err">>

\* C13: an error of Store.set, in immediate and in deferred mode: the error is
\* propagated, no hook is invoked and the request is not passed downstream
C13_SetErrorShortCircuits ==
    last.err = "set" =>
        /\ Count(last.events, "next_err") = 1
        /\ Count(last.events, "on_allowed") = 0
        /\ Count(last.events, "on_throttled") = 0
        /\ Count(last.events, "next") = 0

\* C14: deferred mode: however often the drain of a request is invoked, it
\* subtracts at most once and calls Store.set at most once
C14_DrainOnce ==
    \A i \in 1..Len(drains) :
        /\ drains[i].subs <= 1
        /\ drains[i].sets <= 1
        /\ drains[i].again => (drains[i].drained /\ drains[i].sets = 1)

\* a drain invoked again after it subtracted
C14_Witness ==
    \E i \in 1..Len(drains) :
        /\ drains[i].again /\ drains[i].subs = 1 /\ drains[i].sets = 1
        /\ store[drains[i].key].tokens < Size(opts)

\* C15: deferred mode: a request subtracts nothing at admission, it is admitted
\* iff balance >= cost, and (rolling) the balance it leaves differs from the
\* balance it found only by the refill of the time since that balance was stored
C15_UndrainedKeepsBalance ==
    (last.valid /\ ~Immediate(opts) /\ last.hit) =>
        /\ last.allowed <=> last.seen >= CostUnits(opts, last.cost)
        /\ store[last.key].tokens = last.seen
        /\ (~opts.fixed /\ last.allowed) =>
              last.seen = Min(last.pre.tokens
                                  + 2 * opts.amount * (last.t - last.bal_t),
                              Size(opts))

\* C16: the first invocation of the drain of every request admitted in deferred
\* mode subtracts that request's cost and persists it with one Store.set,
\* whatever was admitted or drained for the key in between
C16_FirstDrainSubtracts ==
    \A i \in 1..Len(drains) :
        drains[i].drained => (drains[i].subs = 1 /\ drains[i].sets = 1)

\* C17: a drain at td on a bucket (tokens, mtime) persists
\* min(tokens + rate * (td - mtime), capacity) - cost
C17_DrainRefillsFirst ==
    (last.events = <<"drain">> /\ ~opts.fixed) =>
        last.post.tokens =
            Min(last.pre.tokens + 2 * opts.amount * (last.t - last.pre.mtime),
                Size(opts)) - CostUnits(opts, last.cost)

\* C18: an error of the Store.set of a drain is raised by the drain call itself,
\* with a store that completes synchronously and with one that completes
\* asynchronously
C18_DrainErrorThrownAtCall ==
    \A i \in 1..Len(drains) : drains[i].err \in {"none", "thrown"}

C20_DrainIsNoop ==
    (opts.version = "C" /\ opts.auto_drain) =>
        /\ drains = << >>
        /\ Count(last.events, "wrap") = 0
        /\ (last.valid /\ last.allowed) =>
              store[last.key].tokens = last.seen - CostUnits(opts, last.cost)
        /\ \A i \in 1..Len(last.events) :
              last.events[i] = "next" =>
                  \E j \in 1..(i - 1) : last.events[j] = "install"

\* C21: the first request observed for a key (the store has no bucket for it) is
\* evaluated against a bucket created full, with mtime = now, and in fixed mode
\* with the window starting now; it is admitted iff its cost is at most the
\* capacity, and when it is admitted with immediate consumption the bucket that
\* is stored holds capacity - cost
C21_FirstRequest ==
    (last.valid /\ ~last.hit) =>
        /\ last.pre.tokens = Size(opts)
        /\ last.pre.mtime = last.t
        /\ last.seen = Size(opts)
        /\ opts.fixed => WindowStart(opts, last.post) = last.t
        /\ last.allowed <=> CostUnits(opts, last.cost) <= Size(opts)
        /\ (last.allowed /\ Immediate(opts)) =>
               /\ last.post.tokens = Size(opts) - CostUnits(opts, last.cost)
               /\ store[last.key] = last.post

C21_Witness ==
    /\ last.valid /\ ~last.hit /\ last.allowed /\ Immediate(opts) /\ opts.fixed
    /\ last.cost > 0
    /\ store[last.key].tokens = Size(opts) - CostUnits(opts, last.cost)

C21_WitnessRejected ==
    last.valid /\ ~last.hit /\ ~last.allowed

\* C22: with the MemoryStore and immediate consumption no request waits between
\* its get and its set, so requests for a key are handled one after the other:
\* of more than N requests of cost 1 at one instant on a balance of exactly N
\* tokens, exactly N are admitted
C22_MemoryStoreSerial ==
    opts.store = "memory" =>
        /\ flight = << >>
        /\ (run.active /\ run.n % Unit(opts) = 0) =>
               LET N == run.n \div Unit(opts)
               IN  /\ run.admitted = Min(run.count, N)
                   /\ run.bal = run.n - run.admitted * Unit(opts)
                   /\ run.last_allowed <=> run.count <= N

C22_Witness ==
    /\ opts.store = "memory" /\ Immediate(opts)
    /\ run.active /\ run.n = 2 * Unit(opts)
    /\ run.count = 3 /\ run.admitted = 2 /\ ~run.last_allowed

\* C23: with a store that completes asynchronously and hands out copies, the
\* write of a request stores the bucket the request computed from the bucket it
\* read, whatever was written for the key since (no per-key locking)
C23_NoLocking ==
    [][\A i \in 1..Len(flight) :
          (flight[i].pc = "set" /\ flight'[i].pc = "done") =>
              store'[flight[i].key] =
                  handle_b(opts, flight[i].read,
                           CostUnits(opts, flight[i].cost), flight[i].t).bucket]_vars

\* the lost update: two requests for one key read the same bucket, whose balance
\* covers one of them; both are admitted and the second write replaces the first
C23_Witness ==
    \E i, j \in 1..Len(flight) :
        /\ i # j
        /\ flight[i].pc = "done" /\ flight[j].pc = "done"
        /\ flight[i].key = flight[j].key
        /\ flight[i].hit /\ flight[i].read = flight[j].read
        /\ flight[i].res.allowed /\ flight[j].res.allowed
        /\ flight[i].res.refilled
             < CostUnits(opts, flight[i].cost) + CostUnits(opts, flight[j].cost)
        /\ store[flight[i].key] = flight[j].res.bucket
        /\ store[flight[i].key].tokens
             = flight[i].res.refilled - CostUnits(opts, flight[j].cost)

\* C24: buckets are partitioned by key: the store holds one bucket per key, and
\* the bucket of a key changes only when a request for that key is processed
\* (or when the store evicts it); a request for a key that has a bucket is
\* evaluated on the bucket stored for that key
C24_PartitionedByKey ==
    [][/\ \A k \in DOMAIN store :
             store'[k] # store[k] =>
                 \/ store'[k] = NoBucket
                 \/ last'.valid /\ last'.key = k /\ store'[k] = last'.post
       /\ (last' # last /\ last'.valid /\ last'.hit) =>
             last'.pre = store[last'.key]]_vars

\* both keys have a bucket, and the buckets differ
C24_Witness ==
    /\ store["k1"] # NoBucket /\ store["k2"] # NoBucket
    /\ store["k1"].tokens = 0 /\ store["k2"].tokens > 0
    /\ last.valid /\ last.key = "k1"

StatedPeriod(raw) ==
    IF raw.rate.given
    THEN (IF raw.rate.mult = << >> THEN 1 ELSE raw.rate.mult[1])
             * time_unit_to_ms(raw.rate.unit)
    ELSE (IF raw.period.mult = << >> THEN 1 ELSE raw.period.mult[1])
             * time_unit_to_ms(raw.period.unit)

\* C26: a client that waits long enough is admitted again: a request of a cost
\* of at most the capacity that comes at least capacity / rate ms (rolling), or
\* more than one period (fixed), after the previous request for its key is
\* admitted
C26_WaitingAdmits ==
    (/\ last.valid /\ last.prev_t > 0
     /\ CostUnits(opts, last.cost) <= Size(opts)
     /\ IF opts.fixed
        THEN last.t - last.prev_t > StatedPeriod(conf.raw)
        ELSE /\ opts.amount > 0
             /\ 2 * opts.amount * (last.t - last.prev_t) >= Size(opts))
        => last.allowed

\* C27: every accepted configuration has a period that is a positive integer
\* number of milliseconds: a multiplier 0 is rejected, and a string with only a
\* time unit means one unit
C27_PeriodPositive ==
    conf.state = "accepted" =>
        /\ conf.parsed.period # NaN
        /\ conf.parsed.period > 0
        /\ conf.parsed.period = StatedPeriod(conf.raw)

\* C28: every rate accepted at setup has an amount > 0, and so has the default
\* capacity: a rate with amount 0 is rejected
C28_AmountPositive ==
    (conf.state = "accepted" /\ conf.raw.rate.given) =>
        /\ conf.parsed.amount > 0
        /\ ~truthy(conf.raw.burst) => conf.parsed.burst > 0

\* C29: the capacity is the burst option when a number is given as burst, and
\* the amount of the rate when a rolling rate comes without burst; a period
\* without a number as burst is rejected
C29_Capacity ==
    /\ (conf.state = "accepted" /\ conf.raw.burst.type = "number") =>
          conf.parsed.burst = conf.raw.burst.value
    /\ (conf.state = "accepted" /\ conf.raw.burst.type = "undefined"
           /\ ~conf.parsed.fixed) =>
          conf.parsed.burst = conf.parsed.amount
    /\ (conf.state # "given" /\ conf.version = "B" /\ ~conf.raw.rate.given
           /\ conf.raw.period.given /\ conf.raw.burst.type # "number") =>
          conf.state = "rejected"

\* C30: fixed mode: the reset time exposed after a request at time now is the
\* time left in the bucket's window: it lies in (0, period], a request that many
\* ms later is reset to full capacity, and no earlier one is
C30_ResetTimeIsRemaining ==
    (last.valid /\ opts.version = "A" /\ opts.fixed) =>
        LET rtime == last.post.rtime
        IN  /\ rtime > 0 /\ rtime <= opts.period
            /\ refill_bucket(opts, last.post, last.t + rtime).tokens = Size(opts)
            /\ \A d \in 0..(rtime - 1) :
                  refill_bucket(opts, last.post, last.t + d).tokens = 0

\* the requests whose calls are kept (a drain keeps <<"drain">>)
IsRequest(l) == l.events # << >> /\ l.events[1] = "get"

\* C31: the events of a request come in the order Store.get, decision,
\* Store.set, outcome: no hook and no hand-off downstream comes before the
\* request's Store.set completed without error, and when both store calls
\* succeed exactly one hook is invoked, on_allowed iff the request was admitted
C31_EventOrder ==
    IsRequest(last) =>
        /\ \A i \in 1..Len(last.events) :
              last.events[i] \in {"on_allowed", "on_throttled", "next", "respond"} =>
                  \E j \in 1..(i - 1) : last.events[j] = "set_ok"
        /\ \A i \in 1..Len(last.events) :
              last.events[i] = "set_ok" =>
                  \E j \in 1..(i - 1) : last.events[j] = "set"
        /\ last.err = "none" =>
              /\ Count(last.events, "on_allowed") + Count(last.events, "on_throttled") = 1
              /\ Count(last.events, "on_allowed") = 1 <=> last.allowed

\* C32: one middleware hands a request to the rest of the pipeline at most once:
\* next is invoked at most once, with or without an error
C32_NextAtMostOnce ==
    IsRequest(last) =>
        Count(last.events, "next") + Count(last.events, "next_err") <= 1

\* C33 as stated: fixed mode: the total cost admitted for a key in an interval
\* shorter than the period never exceeds 2 * capacity
C33_TwiceCapacity ==
    opts.fixed => \A k \in DOMAIN hist : SumSeq(hist[k].adm) <= 2 * Size(opts)

\* C33 with immediate consumption: the total cost admitted in an interval shorter
\* than the period never exceeds 2 * capacity, and a reset comes at least a
\* period after the window it ends was started
C33_TwiceCapacityImmediate ==
    (opts.fixed /\ Immediate(opts)) =>
        /\ \A k \in DOMAIN hist : SumSeq(hist[k].adm) <= 2 * Size(opts)
        /\ (last.valid /\ last.hit /\ last.refill > 0) =>
              last.t - WindowStart(opts, last.pre) >= opts.period

\* the capacity admitted at the end of a window and again right after it
C33_Witness ==
    /\ opts.fixed /\ Immediate(opts)
    /\ last.valid /\ last.hit /\ last.allowed
    /\ last.t < WindowStart(opts, last.post) + opts.period
    /\ WindowStart(opts, last.post) > 1
    /\ store[last.key].tokens = 0
    /\ SumSeq(hist[last.key].adm) = 2 * Size(opts)

\* C34: window_start implementation of fixed mode: every stored bucket has
\* window_start <= mtime < window_start + period, so the window index of mtime
\* is 0, and a request is reset exactly when now - window_start >= period; the
\* new window starts at that request
C34_WindowStartInvariant ==
    (opts.fixed /\ opts.version = "A") =>
        /\ \A k \in DOMAIN store :
              store[k] # NoBucket =>
                  /\ store[k].window_start <= store[k].mtime
                  /\ store[k].mtime < store[k].window_start + opts.period
                  /\ WindowIndex(opts, store[k], store[k].mtime) = 0
        /\ (last.valid /\ last.hit) =>
              /\ last.refill > 0 <=> last.t - last.pre.window_start >= opts.period
              /\ last.refill > 0 => last.post.window_start = last.t

\* a reset later than a multiple of the period after the window started
C34_Witness ==
    /\ opts.fixed /\ opts.version = "A"
    /\ last.valid /\ last.hit /\ last.refill > 0
    /\ last.t > last.pre.window_start + opts.period
    /\ store[last.key].window_start = last.t

\* C35: etime implementation of fixed mode: every bucket handed to the hooks and
\* to Store.set has now <= etime <= now + period, and a request resets the
\* bucket (tokens := capacity, etime := now + period) exactly when it comes
\* strictly after etime
C35_EtimeInvariant ==
    /\ (opts.fixed /\ opts.version # "A" /\ last.events = <<"drain">>
          /\ last.post # last.pre) =>
          /\ last.post.etime # NaN
          /\ last.t <= last.post.etime
          /\ last.post.etime <= last.t + StatedPeriod(conf.raw)
    /\ (opts.fixed /\ opts.version # "A" /\ last.valid) =>
        /\ last.post.etime # NaN
        /\ last.t <= last.post.etime
        /\ last.post.etime <= last.t + StatedPeriod(conf.raw)
        /\ last.hit =>
              /\ last.refill > 0 <=> last.t > last.pre.etime
              /\ last.refill > 0 => (last.seen = Size(opts)
                                      /\ last.post.etime = last.t + StatedPeriod(conf.raw))
              /\ last.refill = 0 => last.post.etime = last.pre.etime

\* C36: the already-drained flag belongs to one request and one middleware: a
\* closure is drained only by a call of its own request's drain, the closures
\* that stacked deferred middlewares put on one request are drained together, and
\* the drain call has subtracted the cost from each of their buckets exactly once
C36_StackedDrainOnce ==
    \A i \in DOMAIN drains :
        LET h == drains[i]
        IN  h.req # 0 =>
              /\ h.drained <=> h.sets >= 1
              /\ h.sets <= 1
              /\ \A j \in DOMAIN drains :
                    drains[j].req = h.req => drains[j].drained = h.drained
              /\ h.drained => h.subs = 1

\* C37: no request raises the balance of its key: whatever cost the validation
\* lets through, the balance a request leaves is at most the balance after the
\* refill and at most the capacity
C37_CostNeverRaises ==
    last.valid =>
        /\ last.post.tokens <= last.seen
        /\ last.post.tokens <= Size(opts)

=============================================================================
